---------------------------- MODULE Spec2Model ----------------------------
(***************************************************************************)
(* The document classification pipeline of join-the-siege:                 *)
(*   src/src/config.py      the rule table, the category set, the API key  *)
(*   src/src/classifier.py  classify_by_filename / classify_by_content /   *)
(*                          classify_by_file / classify_file               *)
(*   src/src/extractor.py   extract_text_from_file                         *)
(*   src/src/gemini.py      _clean_and_validate_prediction,                *)
(*                          classify_text_with_gemini,                     *)
(*                          classify_file_with_gemini                      *)
(*                                                                         *)
(* A Python str is a sequence of one-character strings, so that lower(),   *)
(* strip(), replace() and the `in` substring test are computed, not        *)
(* assumed.  Python's None is the value None below, which is no string.    *)
(***************************************************************************)
EXTENDS Integers, Sequences, FiniteSets, TLC

VARIABLES
    GEMINI_API_KEY,          \* config.py:32, read once when the process starts
    pc,                      \* where the request in flight stands
    filename,                \* file.filename of the request in flight
    doc,                     \* the uploaded payload: what libmagic and the parsers see in it
    pos,                     \* read position of file.stream
    extracted_text,          \* classify_by_content's extracted_text
    response,                \* response.text of the last generate_content call
    category_from_filename,  \* classify_file's locals
    category_from_content,
    category_from_file,
    returned,                \* the value classify_file returned
    tmpFiles,                \* NamedTemporaryFile artifacts that exist on disk
    log                      \* what the request in flight did so far, in order

vars == <<GEMINI_API_KEY, pc, filename, doc, pos, extracted_text, response,
          category_from_filename, category_from_content, category_from_file,
          returned, tmpFiles, log>>

----------------------------------------------------------------------------
(* Bounds of the model. *)

\* A filename is the concatenation of at most MaxNameParts pieces of NameParts.
MaxNameParts == 2
\* Every payload is DocSize bytes long; a stream position is in 0..DocSize.
DocSize == 2

----------------------------------------------------------------------------
(* Python values. *)

None == <<"<None>">>

\* Python truthiness of an Optional[str]: None and "" are falsy.
Truthy(v) == v # None /\ v # <<>>

UpperCase == <<"A","B","C","D","E","F","G","H","I","J","K","L","M",
               "N","O","P","Q","R","S","T","U","V","W","X","Y","Z">>
LowerCase == <<"a","b","c","d","e","f","g","h","i","j","k","l","m",
               "n","o","p","q","r","s","t","u","v","w","x","y","z">>

\* The lower-case letter of each upper-case letter.
LowerOf ==
    [c \in {UpperCase[i] : i \in 1..Len(UpperCase)} |->
        LowerCase[CHOOSE i \in 1..Len(UpperCase) : UpperCase[i] = c]]

\* str.lower() on one ASCII character.
LowerChar(c) == IF c \in DOMAIN LowerOf THEN LowerOf[c] ELSE c

\* str.lower()
Lower(s) == [i \in 1..Len(s) |-> LowerChar(s[i])]

\* The characters str.strip() removes (ASCII whitespace).
Whitespace == {" ", "\t", "\n", "\r", "\f"}

RECURSIVE LStrip(_)
LStrip(s) == IF s # <<>> /\ Head(s) \in Whitespace THEN LStrip(Tail(s)) ELSE s

RECURSIVE RStrip(_)
RStrip(s) ==
    IF s # <<>> /\ s[Len(s)] \in Whitespace
    THEN RStrip(SubSeq(s, 1, Len(s) - 1))
    ELSE s

\* str.strip()
Strip(s) == RStrip(LStrip(s))

\* str.replace(ch, ""): every occurrence of the character is deleted.
Remove(s, ch) == SelectSeq(s, LAMBDA c : c # ch)

\* `k in s` on strings: k occurs in s as a contiguous substring.
Contains(s, k) ==
    \E i \in 0..(Len(s) - Len(k)) : \A n \in 1..Len(k) : s[i + n] = k[n]

\* sep.join(parts)
RECURSIVE Join(_, _)
Join(sep, parts) ==
    IF parts = <<>> THEN <<>>
    ELSE IF Len(parts) = 1 THEN parts[1]
    ELSE parts[1] \o sep \o Join(sep, Tail(parts))

\* Concatenation of a sequence of strings.
RECURSIVE Concat(_)
Concat(parts) == IF parts = <<>> THEN <<>> ELSE Head(parts) \o Concat(Tail(parts))

\* Sequences over S of length 0..n.
SeqUpTo(S, n) == UNION {[1..k -> S] : k \in 0..n}

----------------------------------------------------------------------------
(* config.py *)

FILENAME_CLASSIFICATION_RULES ==
  <<
     [keywords |-> <<<<"d","r","i","v","e","r","s","_","l","i","c","e","n","c","e">>,
                     <<"d","r","i","v","e","r"," ","l","i","c","e","n","c","e">>,
                     <<"d","l">>,
                     <<"d","r","i","v","e","r","s","_","l","i","c","e","n","s","e">>,
                     <<"d","r","i","v","e","r"," ","l","i","c","e","n","s","e">>>>,
      category |-> <<"d","r","i","v","e","r","s","_","l","i","c","e","n","c","e">>],
     [keywords |-> <<<<"b","a","n","k","_","s","t","a","t","e","m","e","n","t">>,
                     <<"b","a","n","k"," ","s","t","a","t","e","m","e","n","t">>>>,
      category |-> <<"b","a","n","k","_","s","t","a","t","e","m","e","n","t">>],
     [keywords |-> <<<<"i","n","v","o","i","c","e">>,
                     <<"i","n","v">>>>,
      category |-> <<"i","n","v","o","i","c","e">>],
     [keywords |-> <<<<"p","a","s","s","p","o","r","t">>>>,
      category |-> <<"p","a","s","s","p","o","r","t">>],
     [keywords |-> <<<<"u","t","i","l","i","t","y","_","b","i","l","l">>,
                     <<"u","t","i","l","i","t","y"," ","b","i","l","l">>>>,
      category |-> <<"u","t","i","l","i","t","y","_","b","i","l","l">>],
     [keywords |-> <<<<"c","h","e","c","k">>>>,
      category |-> <<"c","h","e","c","k">>],
     [keywords |-> <<<<"c","r","e","d","i","t","_","c","a","r","d">>,
                     <<"c","r","e","d","i","t"," ","c","a","r","d">>>>,
      category |-> <<"c","r","e","d","i","t","_","c","a","r","d">>],
     [keywords |-> <<<<"d","e","b","i","t","_","c","a","r","d">>,
                     <<"d","e","b","i","t"," ","c","a","r","d">>>>,
      category |-> <<"d","e","b","i","t","_","c","a","r","d">>],
     [keywords |-> <<<<"r","e","c","e","i","p","t">>,
                     <<"r","e","c","i","e","p","t">>>>,
      category |-> <<"r","e","c","e","i","p","t">>],
     [keywords |-> <<<<"t","a","x","_","f","o","r","m">>,
                     <<"t","a","x"," ","f","o","r","m">>>>,
      category |-> <<"t","a","x","_","f","o","r","m">>],
     [keywords |-> <<<<"w","o","r","k","_","p","e","r","m","i","t">>,
                     <<"w","o","r","k"," ","p","e","r","m","i","t">>>>,
      category |-> <<"w","o","r","k","_","p","e","r","m","i","t">>]
  >>

\* list(set(rule["category"] for rule in FILENAME_CLASSIFICATION_RULES))
POSSIBLE_CATEGORIES ==
    {FILENAME_CLASSIFICATION_RULES[i].category :
        i \in 1..Len(FILENAME_CLASSIFICATION_RULES)}

\* The sentinel, the literal "unknown file" of classifier.py:86 and gemini.py:37.
UnknownFile == <<"u","n","k","n","o","w","n"," ","f","i","l","e">>

----------------------------------------------------------------------------
(* classifier.py: classify_by_filename *)

\* any(keyword in filename_lower for keyword in rule["keywords"])
RuleMatches(rule, filename_lower) ==
    \E j \in 1..Len(rule.keywords) : Contains(filename_lower, rule.keywords[j])

\* A plausible slip: the loop does not return at the first match, so the last
\* matching rule wins.
classify_by_filename_LastMatch(name) ==
    LET hits == {i \in 1..Len(FILENAME_CLASSIFICATION_RULES) :
                    RuleMatches(FILENAME_CLASSIFICATION_RULES[i], Lower(name))}
    IN  IF hits = {} THEN None
        ELSE FILENAME_CLASSIFICATION_RULES[CHOOSE i \in hits : \A j \in hits : i >= j].category

\* The for loop of classify_by_filename from rule i on.
RECURSIVE FilenameLoop(_, _)
FilenameLoop(filename_lower, i) ==
    IF i > Len(FILENAME_CLASSIFICATION_RULES) THEN None
    ELSE IF RuleMatches(FILENAME_CLASSIFICATION_RULES[i], filename_lower)
         THEN FILENAME_CLASSIFICATION_RULES[i].category
         ELSE FilenameLoop(filename_lower, i + 1)

classify_by_filename(name) == FilenameLoop(Lower(name), 1)

----------------------------------------------------------------------------
(* gemini.py: _clean_and_validate_prediction *)

\* A plausible slip: the cleaned reply is returned without the membership test.
clean_and_validate_prediction_Unvalidated(prediction_text) ==
    Remove(Lower(Strip(prediction_text)), "'")

\* prediction_text.strip().lower().replace("'", ""), then the membership test.
clean_and_validate_prediction(prediction_text) ==
    LET cleaned_prediction == Remove(Lower(Strip(prediction_text)), "'")
    IN  IF cleaned_prediction \in POSSIBLE_CATEGORIES
        THEN cleaned_prediction
        ELSE UnknownFile

----------------------------------------------------------------------------
(* extractor.py: extract_text_from_file *)

PDF   == "application/pdf"
DOCX  == "application/vnd.openxmlformats-officedocument.wordprocessingml.document"
XLSX  == "application/vnd.openxmlformats-officedocument.spreadsheetml.sheet"
PLAIN == "text/plain"
IMAGE == {"image/png", "image/jpeg", "image/tiff"}

\* The MIME types the match statement has a case for.
SupportedMime == {PDF, DOCX, XLSX, PLAIN} \cup IMAGE

\* The cases whose parser is handed the FileStorage itself and reads its stream
\* (PdfReader(file), docx.Document(file), openpyxl.load_workbook(file)); the
\* image and plain-text cases work on the file_bytes copy.
StreamParsed == {PDF, DOCX, XLSX}

\* text_parts as the match statement fills it.  d.chunks are the strings the
\* parser yields in order (page texts, the OCR output, paragraph texts, string
\* cells, the decoded bytes); every case but text/plain appends only the
\* non-empty ones.
TextParts(d) ==
    IF d.mime = PLAIN THEN d.chunks
    ELSE SelectSeq(d.chunks, LAMBDA c : c # <<>>)

\* The value extract_text_from_file returns.
extract_text_from_file(d) ==
    IF d.mime \notin SupportedMime THEN None              \* case _: return None
    ELSE IF d.corrupt THEN None                           \* except Exception: return None
    ELSE IF TextParts(d) # <<>>
         THEN Strip(Join(<<"\n">>, TextParts(d)))
         ELSE None

\* Where extract_text_from_file leaves the stream.  It rewinds after its own
\* read (seek(0); read(); seek(0)) and never again: a parser that was handed
\* the stream leaves it wherever the library stopped reading.
StreamAfterExtract(d) ==
    IF d.mime \in StreamParsed THEN 0..DocSize ELSE {0}

\* What the extractor did, for the request's log.
ExtractEvent(d) ==
    IF d.mime \notin SupportedMime THEN "extract_unsupported"
    ELSE IF d.corrupt THEN "extract_fault"
    ELSE "extract_ok"

----------------------------------------------------------------------------
(* The inputs. *)

NameParts == { <<"s","c","a","n">>, <<"d">>, <<"L">>, <<"I","n","v">>,
               <<"c","h","e","c","k">>, <<"p","a","s","s","p","o","r","t">>,
               <<".","p","d","f">> }

\* file.filename: any concatenation of at most MaxNameParts pieces ("" included).
Filenames == {Concat(ps) : ps \in SeqUpTo(NameParts, MaxNameParts)}

Empty == <<>>
Blank == <<" ">>
Txt   == <<"t">>

ChunkLists == { <<>>, <<Empty>>, <<Blank>>, <<Txt>>, <<Blank, Txt>>, <<Txt, Txt>> }

\* A payload, by what libmagic detects in it and what its parser makes of it.
\* text/plain always decodes to exactly one string (errors='ignore'); an image
\* gives one OCR string; what an unsupported payload holds is never looked at.
Documents ==
       [mime : {PDF, DOCX, XLSX}, corrupt : {FALSE}, chunks : ChunkLists]
  \cup [mime : {PDF, DOCX, XLSX} \cup IMAGE, corrupt : {TRUE}, chunks : {<<>>}]
  \cup [mime : IMAGE, corrupt : {FALSE}, chunks : {<<Empty>>, <<Blank>>, <<Txt>>}]
  \cup [mime : {PLAIN}, corrupt : {FALSE}, chunks : {<<Empty>>, <<Blank>>, <<Txt>>}]
  \cup [mime : {"application/zip", "application/octet-stream"},
        corrupt : {FALSE}, chunks : {<<>>}]

NoDoc == [mime |-> "none", corrupt |-> FALSE, chunks |-> <<>>]

\* os.environ.get("GEMINI_API_KEY"): unset, set to "", or set.
ApiKeys == {None, <<>>, <<"k">>}

\* response.text of the remote service: a word, bare or wrapped.
ReplyWords == { <<"i","n","v","o","i","c","e">>,
                <<"P","a","s","s","P","o","r","t">>,
                <<"r","e","c","e","i","p","t","s">>,
                UnknownFile,
                <<>> }
Wrap(w) == { w,
             <<" ">> \o w \o <<"\n">>,
             <<"'">> \o w \o <<"'">>,
             <<" ", "'">> \o w \o <<"'", "\n">>,
             <<"'", " ">> \o w \o <<" ", "'">>,
             <<"\"">> \o w \o <<"\"">> }
Replies == UNION {Wrap(w) : w \in ReplyWords}

----------------------------------------------------------------------------
(* The state machine: one request in flight at a time (requests share nothing *)
(* but the configuration and the disk).                                       *)

Init ==
    /\ GEMINI_API_KEY \in ApiKeys
    /\ pc = "idle"
    /\ filename = None
    /\ doc = NoDoc
    /\ pos = 0
    /\ extracted_text = None
    /\ response = None
    /\ category_from_filename = None
    /\ category_from_content = None
    /\ category_from_file = None
    /\ returned = None
    /\ tmpFiles = 0
    /\ log = <<>>

\* classify_file(file) is entered (app.py:33) with a fresh FileStorage.
Submit ==
    /\ pc = "idle"
    /\ \E f \in Filenames, d \in Documents :
          /\ filename' = f
          /\ doc' = d
    /\ pos' = 0
    /\ extracted_text' = None
    /\ response' = None
    /\ category_from_filename' = None
    /\ category_from_content' = None
    /\ category_from_file' = None
    /\ returned' = None
    /\ log' = <<>>
    /\ pc' = "classify_by_filename"
    /\ UNCHANGED <<GEMINI_API_KEY, tmpFiles>>

\* A plausible slip: the filename is only a fallback, content is tried first.
FilenameIsConfident_Never(category) == FALSE

\* classify_file line 69: `if category_from_filename:`
FilenameIsConfident(category) == Truthy(category)

\* classify_file, step 1 (lines 67-72).
ClassifyByFilename ==
    /\ pc = "classify_by_filename"
    /\ category_from_filename' = classify_by_filename(filename)
    /\ IF FilenameIsConfident(category_from_filename')
       THEN /\ returned' = category_from_filename'
            /\ pc' = "done"
       ELSE /\ returned' = returned
            /\ pc' = "extract_text_from_file"
    /\ UNCHANGED <<GEMINI_API_KEY, filename, doc, pos, extracted_text, response,
                   category_from_content, category_from_file, tmpFiles, log>>

\* A plausible slip: no inner try/except around the parsers and a re-raising
\* outer handler, so a parser fault leaves the function and classify_file.
ExtractText_Propagates ==
    /\ pc = "extract_text_from_file"
    /\ \E p \in StreamAfterExtract(doc) : pos' = p
    /\ log' = Append(log, ExtractEvent(doc))
    /\ IF doc.mime \in SupportedMime /\ doc.corrupt
       THEN pc' = "raised" /\ extracted_text' = extracted_text
       ELSE pc' = "classify_text_with_gemini"
            /\ extracted_text' = extract_text_from_file(doc)
    /\ UNCHANGED <<GEMINI_API_KEY, filename, doc, response, category_from_filename,
                   category_from_content, category_from_file, returned, tmpFiles>>

\* classify_by_content line 35: extract_text_from_file(file), whole.
ExtractText ==
    /\ pc = "extract_text_from_file"
    /\ \E p \in StreamAfterExtract(doc) : pos' = p
    /\ extracted_text' = extract_text_from_file(doc)
    /\ log' = Append(log, ExtractEvent(doc))
    /\ pc' = "classify_text_with_gemini"
    /\ UNCHANGED <<GEMINI_API_KEY, filename, doc, response, category_from_filename,
                   category_from_content, category_from_file, returned, tmpFiles>>

\* classify_by_content lines 36-45 with classify_text_with_gemini up to its call
\* of generate_content (gemini.py:50-67).
ClassifyText ==
    /\ pc = "classify_text_with_gemini"
    /\ IF ~Truthy(extracted_text)
       THEN \* `if extracted_text:` fails, classify_by_content returns None
            /\ pc' = "classify_file_with_gemini"
            /\ log' = Append(log, "no_text")
       ELSE IF ~Truthy(GEMINI_API_KEY)
       THEN \* gemini.py:50-52, return None
            /\ pc' = "classify_file_with_gemini"
            /\ log' = Append(log, "text_no_key")
       ELSE \* gemini.py:67, the request is sent
            /\ pc' = "text_call"
            /\ log' = Append(log, "text_call")
    /\ category_from_content' = None
    /\ UNCHANGED <<GEMINI_API_KEY, filename, doc, pos, extracted_text, response,
                   category_from_filename, category_from_file, returned, tmpFiles>>

\* The service answers the text call: gemini.py:72, classifier.py:41-43, 76-77.
TextCallReplies ==
    /\ pc = "text_call"
    /\ \E r \in Replies : response' = r
    /\ category_from_content' = clean_and_validate_prediction(response')
    /\ log' = Append(log, "text_reply")
    /\ IF Truthy(category_from_content')
       THEN /\ returned' = category_from_content'
            /\ pc' = "done"
       ELSE /\ returned' = returned
            /\ pc' = "classify_file_with_gemini"
    /\ UNCHANGED <<GEMINI_API_KEY, filename, doc, pos, extracted_text,
                   category_from_filename, category_from_file, tmpFiles>>

\* The text call raises (network, auth, a response without text):
\* gemini.py:74-76 returns None.
TextCallRaises ==
    /\ pc = "text_call"
    /\ category_from_content' = None
    /\ log' = Append(log, "text_raise")
    /\ pc' = "classify_file_with_gemini"
    /\ UNCHANGED <<GEMINI_API_KEY, filename, doc, pos, extracted_text, response,
                   category_from_filename, category_from_file, returned, tmpFiles>>

\* The service never answers.  generate_content is called with no timeout and
\* nothing cancels it: the request stays in the call.
TextCallHangs ==
    /\ pc = "text_call"
    /\ pc' = "text_call_hung"
    /\ UNCHANGED <<GEMINI_API_KEY, filename, doc, pos, extracted_text, response,
                   category_from_filename, category_from_content, category_from_file,
                   returned, tmpFiles, log>>

----------------------------------------------------------------------------
(* Step 3: classify_by_file and classify_file_with_gemini. *)

\* classify_by_file line 53 and classify_file lines 83-86: what classify_file
\* returns once classify_file_with_gemini has returned v.
ReturnAfterFile(v) == IF Truthy(v) THEN v ELSE UnknownFile

\* classify_file_with_gemini returned v: classify_file returns.
FinishFile(v) ==
    /\ category_from_file' = (IF Truthy(v) THEN v ELSE None)
    /\ returned' = ReturnAfterFile(v)
    /\ pc' = "done"

\* A plausible slip: the artifact is unlinked by hand after the upload instead
\* of by the with block, so a raise in the block leaves it on disk.
ReleaseTmp_OnlyOnSuccess(n, raising) == IF raising THEN n ELSE n - 1

\* The with block of gemini.py:94 is left, normally or by an exception:
\* NamedTemporaryFile(delete=True) closes and unlinks the artifact.
ReleaseTmp(n, raising) == n - 1

\* A plausible slip: classify_file_with_gemini does not test the key.
FileTierHasKey_Unchecked(key) == TRUE

\* gemini.py:82 `if not GEMINI_API_KEY:` (negated)
FileTierHasKey(key) == Truthy(key)

\* classify_file_with_gemini from its entry to the creation of the temporary file
\* (gemini.py:82-94).  bool(FileStorage) is bool(file.filename).
ClassifyByFile ==
    /\ pc = "classify_file_with_gemini"
    /\ IF ~FileTierHasKey(GEMINI_API_KEY)
       THEN /\ log' = Append(log, "file_no_key")
            /\ FinishFile(None)
            /\ tmpFiles' = tmpFiles
       ELSE IF ~Truthy(filename)
       THEN /\ log' = Append(log, "file_no_file")
            /\ FinishFile(None)
            /\ tmpFiles' = tmpFiles
       ELSE \/ \* NamedTemporaryFile creates the artifact
               /\ tmpFiles' = tmpFiles + 1
               /\ log' = Append(log, "tmp_create")
               /\ pc' = "tmp_save"
               /\ UNCHANGED <<category_from_file, returned>>
            \/ \* NamedTemporaryFile raises (no space, no directory): nothing created
               /\ tmpFiles' = tmpFiles
               /\ log' = Append(log, "tmp_fail")
               /\ FinishFile(None)
    /\ UNCHANGED <<GEMINI_API_KEY, filename, doc, pos, extracted_text, response,
                   category_from_filename, category_from_content>>

\* gemini.py:95-104: seek(0), save, flush, then the upload is sent.
SaveToTmp ==
    /\ pc = "tmp_save"
    /\ \/ \* the payload is copied in full
          /\ pos' = DocSize
          /\ log' = Append(log, "upload_call")
          /\ pc' = "upload_call"
          /\ UNCHANGED <<tmpFiles, category_from_file, returned>>
       \/ \* save or flush raises: the with block is left, gemini.py:128-130
          /\ \E p \in 0..DocSize : pos' = p
          /\ tmpFiles' = ReleaseTmp(tmpFiles, TRUE)
          /\ log' = Append(log, "save_raise")
          /\ FinishFile(None)
    /\ UNCHANGED <<GEMINI_API_KEY, filename, doc, extracted_text, response,
                   category_from_filename, category_from_content>>

\* client.files.upload returns; the with block ends; gemini.py:112-126.
UploadReturns ==
    /\ pc = "upload_call"
    /\ tmpFiles' = ReleaseTmp(tmpFiles, FALSE)
    /\ \/ \* a file resource: generate_content is sent
          /\ log' = Append(log, "upload_ok")
          /\ pc' = "file_call"
          /\ UNCHANGED <<category_from_file, returned>>
       \/ \* a falsy resource: return None
          /\ log' = Append(log, "upload_none")
          /\ FinishFile(None)
    /\ UNCHANGED <<GEMINI_API_KEY, filename, doc, pos, extracted_text, response,
                   category_from_filename, category_from_content>>

\* client.files.upload raises: the with block is left, gemini.py:128-130.
UploadRaises ==
    /\ pc = "upload_call"
    /\ tmpFiles' = ReleaseTmp(tmpFiles, TRUE)
    /\ log' = Append(log, "upload_raise")
    /\ FinishFile(None)
    /\ UNCHANGED <<GEMINI_API_KEY, filename, doc, pos, extracted_text, response,
                   category_from_filename, category_from_content>>

\* The upload never returns: no timeout, the request stays inside the with block.
UploadHangs ==
    /\ pc = "upload_call"
    /\ pc' = "upload_call_hung"
    /\ UNCHANGED <<GEMINI_API_KEY, filename, doc, pos, extracted_text, response,
                   category_from_filename, category_from_content, category_from_file,
                   returned, tmpFiles, log>>

\* The service answers the file call: gemini.py:123, classifier.py:53-55, 83-84.
FileCallReplies ==
    /\ pc = "file_call"
    /\ \E r \in Replies : response' = r
    /\ log' = Append(log, "file_reply")
    /\ FinishFile(clean_and_validate_prediction(response'))
    /\ UNCHANGED <<GEMINI_API_KEY, filename, doc, pos, extracted_text,
                   category_from_filename, category_from_content, tmpFiles>>

\* The file call raises: gemini.py:128-130 returns None.
FileCallRaises ==
    /\ pc = "file_call"
    /\ log' = Append(log, "file_raise")
    /\ FinishFile(None)
    /\ UNCHANGED <<GEMINI_API_KEY, filename, doc, pos, extracted_text, response,
                   category_from_filename, category_from_content, tmpFiles>>

\* The service never answers the file call.
FileCallHangs ==
    /\ pc = "file_call"
    /\ pc' = "file_call_hung"
    /\ UNCHANGED <<GEMINI_API_KEY, filename, doc, pos, extracted_text, response,
                   category_from_filename, category_from_content, category_from_file,
                   returned, tmpFiles, log>>

\* app.py:34: the route answers with the category; the next request may come.
Respond ==
    /\ pc = "done"
    /\ pc' = "idle"
    /\ filename' = None
    /\ doc' = NoDoc
    /\ pos' = 0
    /\ extracted_text' = None
    /\ response' = None
    /\ category_from_filename' = None
    /\ category_from_content' = None
    /\ category_from_file' = None
    /\ returned' = None
    /\ log' = <<>>
    /\ UNCHANGED <<GEMINI_API_KEY, tmpFiles>>

Next ==
    \/ Submit
    \/ ClassifyByFilename
    \/ ExtractText
    \/ ClassifyText
    \/ TextCallReplies
    \/ TextCallRaises
    \/ TextCallHangs
    \/ ClassifyByFile
    \/ SaveToTmp
    \/ UploadReturns
    \/ UploadRaises
    \/ UploadHangs
    \/ FileCallReplies
    \/ FileCallRaises
    \/ FileCallHangs
    \/ Respond

Spec == Init /\ [][Next]_vars

\* The interpreter runs a request's next step whenever it has one; whether the
\* remote service answers is the service's business.
FairSpec == Spec /\ WF_vars(Next)

----------------------------------------------------------------------------
(* Vocabulary of the properties. *)

Rules == 1..Len(FILENAME_CLASSIFICATION_RULES)

\* The rules with a keyword that occurs in the lower-cased filename f.
MatchingRules(f) ==
    LET lowered == Lower(f)
    IN  {i \in Rules :
            \E j \in 1..Len(FILENAME_CLASSIFICATION_RULES[i].keywords) :
                Contains(lowered, FILENAME_CLASSIFICATION_RULES[i].keywords[j])}

\* The category of the first matching rule in table order (f has one).
FirstRuleCategory(f) ==
    LET M == MatchingRules(f)
    IN  FILENAME_CLASSIFICATION_RULES[CHOOSE i \in M : \A k \in M : i <= k].category

InFlight == pc # "idle"

Logged(e) == \E i \in 1..Len(log) : log[i] = e

LastLogged(e) == log # <<>> /\ log[Len(log)] = e

\* Everything that reaches the remote service or the disk.
RemoteEvents == {"text_call", "text_reply", "text_raise", "tmp_create", "upload_call",
                 "upload_ok", "upload_none", "upload_raise", "file_reply", "file_raise"}

\* The first thing classify_file_with_gemini logs once it is entered.
FileTierEntry == {"file_no_key", "file_no_file", "tmp_create", "tmp_fail"}

\* The ways step 2 ends without a verdict.
Tier2Absent == {"no_text", "text_no_key", "text_raise"}

\* The positions inside the with block of classify_file_with_gemini.
InsideWith == {"tmp_save", "upload_call", "upload_call_hung"}

TypeOK ==
    /\ GEMINI_API_KEY \in ApiKeys
    /\ pc \in {"idle", "classify_by_filename", "extract_text_from_file",
               "classify_text_with_gemini", "text_call", "text_call_hung",
               "classify_file_with_gemini", "tmp_save", "upload_call",
               "upload_call_hung", "file_call", "file_call_hung", "done"}
    /\ pos \in 0..DocSize
    /\ tmpFiles \in 0..1
    /\ InFlight => filename \in Filenames /\ doc \in Documents

----------------------------------------------------------------------------
(* The claims. *)

\* C1: whatever the filename, the extraction outcome and the remote outcome,
\* classify_file returns a member of POSSIBLE_CATEGORIES or "unknown file",
\* and it does return (no exception leaves it).
C1_ReturnsCategoryOrSentinel ==
    /\ pc # "raised"
    /\ pc = "done" => returned \in POSSIBLE_CATEGORIES \cup {UnknownFile}

\* C1 witness: the service answered the file call with a word that is no
\* category ("receipts"), and the sentinel was returned.
C1_Witness ==
    /\ pc = "done"
    /\ LastLogged("file_reply")
    /\ response = <<" ">> \o <<"r","e","c","e","i","p","t","s">> \o <<"\n">>
    /\ returned = UnknownFile

\* C2: a filename whose lower-cased form contains a keyword of some rule is
\* answered by step 1 alone: the request never leaves step 1, nothing is
\* extracted, no remote call and no temporary file is made, and the value
\* returned is a matching rule's category.
C2_FilenameMatchShortCircuits ==
    LET M == IF InFlight THEN MatchingRules(filename) ELSE {}
    IN  M # {} =>
            /\ pc \in {"classify_by_filename", "done"}
            /\ log = <<>>
            /\ response = None
            /\ tmpFiles = 0
            /\ pc = "done" =>
                  /\ returned = category_from_filename
                  /\ \E i \in M : returned = FILENAME_CLASSIFICATION_RULES[i].category

\* C2 witness: a matching filename on a readable PDF with the key configured
\* (steps 2 and 3 would both have called the service) has been answered.
C2_Witness ==
    /\ pc = "done"
    /\ MatchingRules(filename) # {}
    /\ Truthy(GEMINI_API_KEY)
    /\ doc = [mime |-> PDF, corrupt |-> FALSE, chunks |-> <<Txt>>]

\* C3: classify_by_filename returns the category of the first rule in table
\* order with a keyword in the lower-cased filename, and None exactly when no
\* rule has one.
C3_FirstRuleInTableOrderWins ==
    (InFlight /\ pc # "classify_by_filename") =>
        LET M == MatchingRules(filename)
        IN  IF M = {}
            THEN category_from_filename = None
            ELSE \E i \in M :
                    /\ \A k \in M : i <= k
                    /\ category_from_filename = FILENAME_CLASSIFICATION_RULES[i].category

\* C3 witness: "checkInv" holds the keyword of rule 6 ("check") before the
\* keyword of rule 3 ("inv"), and rule 3 won.
C3_Witness ==
    /\ pc = "done"
    /\ filename = <<"c","h","e","c","k","I","n","v">>
    /\ MatchingRules(filename) = {3, 6}
    /\ category_from_filename = <<"i","n","v","o","i","c","e">>

\* C4: a text-classification reply that fails validation is no confident
\* result: the request does not finish before the Whole-Document Classifier
\* has been entered.
C4_InvalidTextVerdictFallsThrough ==
    (pc = "done" /\ Logged("text_reply")
        /\ Remove(Lower(Strip(response)), "'") \notin POSSIBLE_CATEGORIES
        /\ ~Logged("file_reply"))
    => \E e \in FileTierEntry : Logged(e)

\* C5: when no rule matches and step 2 ends without a verdict (unsupported
\* type, parser fault, no or empty text, the text call raising), nothing is
\* raised, the very next thing done is to enter classify_file_with_gemini, and
\* classify_file returns that tier's verdict if it has one, else "unknown file".
C5_AbsentTier2FallsThroughToTier3 ==
    /\ pc # "raised"
    /\ \A i \in 1..Len(log) :
          /\ log[i] \in {"extract_unsupported", "extract_fault"} =>
                (i < Len(log) => log[i + 1] = "no_text")
          /\ log[i] = "extract_ok" /\ ~Truthy(extracted_text) =>
                (i < Len(log) => log[i + 1] = "no_text")
          /\ log[i] \in Tier2Absent =>
                /\ IF i = Len(log)
                   THEN pc = "classify_file_with_gemini"
                   ELSE log[i + 1] \in FileTierEntry
                /\ pc = "done" =>
                      returned =
                        IF LastLogged("file_reply")
                        THEN IF Remove(Lower(Strip(response)), "'") \in POSSIBLE_CATEGORIES
                             THEN Remove(Lower(Strip(response)), "'")
                             ELSE UnknownFile
                        ELSE UnknownFile

\* C5 witness: a corrupt PDF went through step 3 and got a category from it.
C5_Witness ==
    /\ pc = "done"
    /\ Logged("extract_fault")
    /\ LastLogged("file_reply")
    /\ returned = <<"p","a","s","s","p","o","r","t">>

C7_TmpFileReleased ==
    /\ tmpFiles \in 0..1
    /\ pc \notin InsideWith => tmpFiles = 0

\* C7 witness: the artifact was created, the upload raised, the function returned.
C7_Witness ==
    /\ pc = "done"
    /\ Logged("tmp_create")
    /\ LastLogged("upload_raise")
    /\ tmpFiles = 0

\* The claim's reading of the normalisation: surrounding whitespace and quote
\* characters (single or double) are taken off, in any order, and the rest is
\* lower-cased.
QuoteChars == {"'", "\""}

RECURSIVE Unwrap(_)
Unwrap(s) ==
    IF s # <<>> /\ Head(s) \in Whitespace \cup QuoteChars THEN Unwrap(Tail(s))
    ELSE IF s # <<>> /\ s[Len(s)] \in Whitespace \cup QuoteChars
         THEN Unwrap(SubSeq(s, 1, Len(s) - 1))
         ELSE s

\* C8: a remote classifier returns category c exactly when the reply, with its
\* wrapping whitespace and quote characters taken off and lower-cased, is c,
\* and "unknown file" for every other reply.
C8_WrappedCategoryAccepted ==
    (pc = "done" /\ (LastLogged("text_reply") \/ LastLogged("file_reply"))) =>
        returned = IF Lower(Unwrap(response)) \in POSSIBLE_CATEGORIES
                   THEN Lower(Unwrap(response))
                   ELSE UnknownFile

\* C9: every request that starts reaches a terminal state, also when the
\* remote service never answers.
C9_EveryRequestTerminates == (pc = "classify_by_filename") ~> (pc = "done")

\* C10: when extract_text_from_file returns, the stream is back at its start.
C10_StreamRewoundAfterExtract ==
    pc = "classify_text_with_gemini" => pos = 0

=============================================================================
